---------------------------- MODULE Spec2Model ----------------------------
(***************************************************************************)
(* Model of the worker of machinery v1 (src/v1/worker.go):                 *)
(* Worker.processMessage decodes a delivery into a TaskSignature, resolves *)
(* the registered task, reflects the arguments, calls the task and hands   *)
(* the outcome to Worker.finalize, which sends the OnError or OnSuccess    *)
(* signatures with the error or the result prepended to their arguments.   *)
(***************************************************************************)
EXTENDS Naturals, Sequences, FiniteSets, TLC

VARIABLES
    pc,            \* position of processMessage
    d,             \* the delivery being processed (d.Body)
    s,             \* the local TaskSignature of processMessage
    unmarshalErr,  \* the (ignored) error of json.Unmarshal
    task,          \* the value of w.app.GetRegisteredTask(s.Name)
    reflectedArgs, \* the value of ReflectArgs(s.Args)
    results,       \* the values returned by reflectedTask.Call
    outcome,       \* the (result, err) arguments of the last finalize call
    invocations,   \* the handler calls made, in order
    published,     \* the SendTask calls made, in order, each with its result
    finalizeCalls, \* the number of finalize calls made for this delivery
    returned,      \* what processMessage handed back to its caller
    registry,      \* the tasks registered against the app, shared by every call
    parked         \* the locals of another processMessage call that is not
                   \* running now (or that ran before), NoExec when there is none

vars == <<pc, d, s, unmarshalErr, task, reflectedArgs, results, outcome,
          invocations, published, finalizeCalls, returned, registry, parked>>

-----------------------------------------------------------------------------
(* Bounds of the model *)

\* longest Args list of an inbound signature
MaxArgs == 2
\* longest OnSuccess / OnError list of an inbound signature
MaxConts == 2
\* number of times finalize is applied to one signature in SpecFinalize
MaxDirectCalls == 2

SeqsUpTo(S, n) == UNION {[1..k -> S] : k \in 0..n}

-----------------------------------------------------------------------------
(* Values, arguments and signatures *)

\* a Go value: its dynamic type and what it holds
Nil == [kind |-> "nil", v |-> ""]
\* a JSON number decoded into an interface{}
Num(x) == [kind |-> "float64", v |-> x]
\* a string
Str(x) == [kind |-> "string", v |-> x]
\* a native int
Int(x) == [kind |-> "int", v |-> x]
\* errors.New(m): an error value whose Error() is m
ErrorsNew(m) == [kind |-> "*errors.errorString", v |-> m]

\* TaskArg{Type, Value}
TaskArg(t, v) == [Type |-> t, Value |-> v]

IntTwo == TaskArg("int", Num("2"))
StrPager == TaskArg("string", Str("pager"))
\* a TaskArg whose Type no decoder knows
Unsupported == TaskArg("complex", Num("2"))

\* a TaskArg whose Value is not of its Type
BadInt == TaskArg("int", Str("pager"))

ArgSet == {IntTwo, StrPager, Unsupported, BadInt}

\* TaskSignature{}: the zero value
ZeroSig == [Name |-> "", Args |-> <<>>, Immutable |-> FALSE,
            OnSuccess |-> <<>>, OnError |-> <<>>]

\* continuation templates as they appear in OnSuccess / OnError
TLog == [Name |-> "log", Args |-> <<>>, Immutable |-> FALSE,
         OnSuccess |-> <<>>, OnError |-> <<>>]
TAlert == [Name |-> "alert", Args |-> <<StrPager, IntTwo>>, Immutable |-> TRUE,
           OnSuccess |-> <<TLog>>, OnError |-> <<TLog>>]

Templates == {TLog, TAlert}

Names == {"add", "log", "ghost"}

Signatures ==
    [Name : Names, Args : SeqsUpTo(ArgSet, MaxArgs), Immutable : BOOLEAN,
     OnSuccess : SeqsUpTo(Templates, MaxConts),
     OnError : SeqsUpTo(Templates, MaxConts)]

\* the bodies a delivery can carry: a well-formed encoding of a signature, an
\* encoding whose Immutable field holds a non-boolean, or bytes that are no JSON
Deliveries ==
    [sig : Signatures, defect : {"none"}]
        \cup [sig : {x \in Signatures : x.Immutable = FALSE}, defect : {"type"}]
        \cup [sig : {ZeroSig}, defect : {"syntax"}]

NoDelivery == [sig |-> ZeroSig, defect |-> "syntax"]

\* json.Unmarshal([]byte(d.Body), &s): bytes that are no JSON leave s untouched;
\* a field of the wrong JSON type is skipped, the other fields are stored, and
\* the first such error is returned
Unmarshal(body) ==
    CASE body.defect = "none" -> [s |-> body.sig, err |-> Nil]
      [] body.defect = "type" ->
            [s |-> [body.sig EXCEPT !.Immutable = FALSE],
             err |-> ErrorsNew("json: cannot unmarshal string into Go value of type bool")]
      [] OTHER -> [s |-> ZeroSig, err |-> ErrorsNew("invalid character")]

-----------------------------------------------------------------------------
(* The collaborators of the worker: the registry, the argument decoder, the *)
(* handlers and the publisher                                               *)

\* the registered tasks: their parameter types and the type of their result
Registry ==
    [add |-> [params |-> <<"int", "int">>, out |-> "int"],
     log |-> [params |-> <<"int">>, out |-> "string"]]

NoTask == "nil"

\* no other processMessage call
NoExec == [pc |-> "none"]

\* w.app.GetRegisteredTask(name): the task registered under name, or nil
GetRegisteredTask(name) == IF name \in DOMAIN registry THEN name ELSE NoTask

SupportedTypes == {"int", "string"}

\* whether the value of a TaskArg can be decoded as its declared type
Decodable(arg) ==
    \/ arg.Type = "int" /\ arg.Value.kind = "float64"
    \/ arg.Type = "string" /\ arg.Value.kind = "string"

\* the native value of a decodable TaskArg
ReflectValue(arg) == [kind |-> arg.Type, v |-> arg.Value.v]

\* ReflectArgs(args): the arguments as native values, in order, or an error when
\* one of them cannot be decoded as its declared type
ReflectArgs(args) ==
    IF \E i \in 1..Len(args) : ~Decodable(args[i])
    THEN [vals |-> <<>>, err |-> ErrorsNew("unsupported type")]
    ELSE [vals |-> [i \in 1..Len(args) |-> ReflectValue(args[i])], err |-> Nil]

\* reflect.Value.Call panics unless the arguments match the parameters of the
\* function in number and type
CallPanics(t, rargs) ==
    \/ Len(rargs) # Len(Registry[t].params)
    \/ \E i \in 1..Len(rargs) : rargs[i].kind # Registry[t].params[i]

\* the results a handler returning the type t can give
ResultValues(t) ==
    IF t = "int" THEN {Int("5"), Int("7")} ELSE {Str("ok"), Str("done")}

\* the zero value of the type t
ZeroValue(t) == IF t = "int" THEN Int("0") ELSE Str("")

\* the messages of the errors a handler can give
ErrMsgs == {"disk full", "boom"}

\* what a call of the task t can return: (result, nil) or (zero, error)
HandlerReturns(t) ==
    {<<r, Nil>> : r \in ResultValues(Registry[t].out)}
        \cup {<<ZeroValue(Registry[t].out), ErrorsNew(m)>> : m \in ErrMsgs}

\* what w.app.SendTask can answer
SendResults == {"ok", "PublishError"}

-----------------------------------------------------------------------------
(* Worker.finalize *)

\* the loop working on the elements themselves
RangeShares == FALSE

\* whether `for _, t := range s.OnError` hands the loop a copy of the element
\* (a slice of signatures) or the element itself (a slice of pointers)
RangeCopies == TRUE

\* reflect.Value.String(): the string of a string value, "<T Value>" otherwise
ReflectString(v, typ) ==
    IF v.kind = "string" THEN v.v ELSE "<" \o typ \o " Value>"

\* TaskArg{Type: reflect.TypeOf(err).String(), Value: reflect.ValueOf(err).Interface()}
ErrorArg(err) == TaskArg(err.kind, err)

\* TaskArg{Type: result.Type().String(), Value: result.Interface()}
ResultArg(result) == TaskArg(result.kind, result)

\* the error withheld from the error tasks of an immutable signature
ErrorArgsUnlessImmutable(sig, errorTask, err) ==
    IF sig.Immutable = FALSE
    THEN <<TaskArg("*errors.errorString", err)>> \o errorTask.Args
    ELSE errorTask.Args

\* the arguments of the error task sent for errorTask
ErrorArgs(sig, errorTask, err) == <<ErrorArg(err)>> \o errorTask.Args

\* the result put after the declared arguments instead of before them
SuccessArgsAppended(sig, successTask, result) ==
    IF sig.Immutable = FALSE
    THEN successTask.Args \o <<TaskArg(result.kind, result)>>
    ELSE successTask.Args

\* the result prepended whatever Immutable says
SuccessArgsAlways(sig, successTask, result) ==
    <<TaskArg(result.kind, result)>> \o successTask.Args

\* the arguments of the success task sent for successTask
SuccessArgs(sig, successTask, result) ==
    IF sig.Immutable = FALSE
    THEN <<ResultArg(result)>> \o successTask.Args
    ELSE successTask.Args

\* a new task built from the name and the arguments alone
WithArgsOnly(t, args) ==
    [Name |-> t.Name, Args |-> args, Immutable |-> FALSE,
     OnSuccess |-> <<>>, OnError |-> <<>>]

\* the task after `errorTask.Args = args`
WithArgs(t, args) == [t EXCEPT !.Args = args]

\* the tasks sent last to first
FinalizeSendsReversed(sig, result, err) ==
    LET list == IF err # Nil THEN sig.OnError ELSE sig.OnSuccess
        NewArgs(t) == IF err # Nil
                      THEN <<TaskArg("*errors.errorString", err)>> \o t.Args
                      ELSE IF sig.Immutable = FALSE
                           THEN <<TaskArg(result.kind, result)>> \o t.Args
                           ELSE t.Args
    IN [i \in 1..Len(list) |->
            [list[Len(list) + 1 - i] EXCEPT !.Args = NewArgs(list[Len(list) + 1 - i])]]

\* the error branch running on into the success loop
FinalizeSendsBoth(sig, result, err) ==
    LET errs == [i \in 1..Len(sig.OnError) |->
                    [sig.OnError[i] EXCEPT
                        !.Args = <<TaskArg(err.kind, err)>> \o sig.OnError[i].Args]]
        succs == [i \in 1..Len(sig.OnSuccess) |->
                    [sig.OnSuccess[i] EXCEPT
                        !.Args = IF sig.Immutable = FALSE
                                 THEN <<TaskArg(result.kind, result)>>
                                          \o sig.OnSuccess[i].Args
                                 ELSE sig.OnSuccess[i].Args]]
    IN IF err # Nil THEN errs \o succs ELSE succs

\* the tasks finalize(sig, result, err) passes to SendTask, in order
FinalizeSends(sig, result, err) ==
    IF err # Nil
    THEN [i \in 1..Len(sig.OnError) |->
            WithArgs(sig.OnError[i], ErrorArgs(sig, sig.OnError[i], err))]
    ELSE [i \in 1..Len(sig.OnSuccess) |->
            WithArgs(sig.OnSuccess[i], SuccessArgs(sig, sig.OnSuccess[i], result))]

\* the new arguments stored in the signature itself instead of in the task
FinalizeLeavesOrigin(sig, result, err) ==
    IF err # Nil
    THEN [sig EXCEPT !.Args = <<TaskArg(err.kind, err)>> \o sig.Args]
    ELSE [sig EXCEPT !.Args = <<TaskArg(result.kind, result)>> \o sig.Args]

\* the signature finalize leaves behind: its own when the loop works on copies,
\* the one whose tasks carry the new arguments otherwise
FinalizeLeaves(sig, result, err) ==
    IF RangeCopies THEN sig
    ELSE IF err # Nil
         THEN [sig EXCEPT !.OnError = FinalizeSends(sig, result, err)]
         ELSE [sig EXCEPT !.OnSuccess = FinalizeSends(sig, result, err)]

\* w.finalize(&s, result, err): every SendTask call is made and its answer dropped
Finalize(result, err) ==
    LET sends == FinalizeSends(s, result, err) IN
    \E answers \in [1..Len(sends) -> SendResults] :
        /\ published' = published \o
                [i \in 1..Len(sends) |-> [sig |-> sends[i], res |-> answers[i]]]
        /\ s' = FinalizeLeaves(s, result, err)
        /\ outcome' = [result |-> result, err |-> err]
        /\ finalizeCalls' = finalizeCalls + 1

-----------------------------------------------------------------------------
(* Worker.processMessage *)

Init ==
    /\ pc = "idle"
    /\ d = NoDelivery
    /\ s = ZeroSig
    /\ unmarshalErr = Nil
    /\ task = NoTask
    /\ reflectedArgs = [vals |-> <<>>, err |-> Nil]
    /\ results = <<Nil, Nil>>
    /\ outcome = [result |-> Nil, err |-> Nil]
    /\ invocations = <<>>
    /\ published = <<>>
    /\ finalizeCalls = 0
    /\ returned = "pending"
    /\ registry = Registry
    /\ parked = NoExec

\* the connection layer calls processMessage with a delivery; s is decoded
Receive ==
    /\ pc = "idle"
    /\ \E body \in Deliveries :
        /\ d' = body
        /\ s' = Unmarshal(body).s
        /\ unmarshalErr' = Unmarshal(body).err
    /\ pc' = "lookup"
    /\ task' = NoTask
    /\ reflectedArgs' = [vals |-> <<>>, err |-> Nil]
    /\ results' = <<Nil, Nil>>
    /\ outcome' = [result |-> Nil, err |-> Nil]
    /\ invocations' = <<>>
    /\ published' = <<>>
    /\ finalizeCalls' = 0
    /\ returned' = "pending"
    /\ UNCHANGED <<registry, parked>>

\* a missing task routed to the error tasks instead of dropped
LookupFinalizesMissing ==
    /\ pc = "lookup"
    /\ task' = GetRegisteredTask(s.Name)
    /\ IF task' = NoTask
       THEN /\ Finalize(Nil, ErrorsNew("task not registered"))
            /\ pc' = "done"
            /\ returned' = "void"
       ELSE /\ pc' = "reflect"
            /\ UNCHANGED <<s, outcome, published, finalizeCalls, returned>>
    /\ UNCHANGED <<d, unmarshalErr, reflectedArgs, results, invocations>>
    /\ UNCHANGED <<registry, parked>>

\* task := w.app.GetRegisteredTask(s.Name); if task == nil { log; return }
Lookup ==
    /\ pc = "lookup"
    /\ task' = GetRegisteredTask(s.Name)
    /\ IF task' = NoTask
       THEN /\ pc' = "done"
            /\ returned' = "void"
       ELSE /\ pc' = "reflect"
            /\ UNCHANGED returned
    /\ UNCHANGED <<d, s, unmarshalErr, reflectedArgs, results, outcome,
                   invocations, published, finalizeCalls>>
    /\ UNCHANGED <<registry, parked>>

\* an argument that cannot be decoded dropping the task without finalize
ReflectDrops ==
    /\ pc = "reflect"
    /\ reflectedArgs' = ReflectArgs(s.Args)
    /\ IF reflectedArgs'.err # Nil
       THEN /\ pc' = "done"
            /\ returned' = "void"
            /\ UNCHANGED <<s, outcome, published, finalizeCalls>>
       ELSE /\ pc' = "call"
            /\ UNCHANGED <<s, outcome, published, finalizeCalls, returned>>
    /\ UNCHANGED <<d, unmarshalErr, task, results, invocations>>
    /\ UNCHANGED <<registry, parked>>

\* relfectedArgs, err := ReflectArgs(s.Args); if err != nil { finalize; return }
Reflect ==
    /\ pc = "reflect"
    /\ reflectedArgs' = ReflectArgs(s.Args)
    /\ IF reflectedArgs'.err # Nil
       THEN /\ Finalize(Nil, reflectedArgs'.err)
            /\ pc' = "done"
            /\ returned' = "void"
       ELSE /\ pc' = "call"
            /\ UNCHANGED <<s, outcome, published, finalizeCalls, returned>>
    /\ UNCHANGED <<d, unmarshalErr, task, results, invocations>>
    /\ UNCHANGED <<registry, parked>>

\* results := reflectedTask.Call(relfectedArgs)
Call ==
    /\ pc = "call"
    /\ IF CallPanics(task, reflectedArgs.vals)
       THEN /\ pc' = "panicked"
            /\ UNCHANGED <<results, invocations>>
       ELSE /\ \E rets \in HandlerReturns(task) : results' = rets
            /\ invocations' = Append(invocations,
                                     [handler |-> task, args |-> reflectedArgs.vals])
            /\ pc' = "returned"
    /\ UNCHANGED <<d, s, unmarshalErr, task, reflectedArgs, outcome,
                   published, finalizeCalls, returned>>
    /\ UNCHANGED <<registry, parked>>

\* the registered tasks among the continuations called inline after being sent
FinishInvokesInline ==
    /\ pc = "returned"
    /\ IF results[2] # Nil
       THEN Finalize(Nil, ErrorsNew(ReflectString(results[2], "error")))
       ELSE Finalize(results[1], reflectedArgs.err)
    /\ invocations' = invocations \o
            [i \in 1..(Len(published') - Len(published)) |->
                [handler |-> published'[Len(published) + i].sig.Name,
                 args |-> published'[Len(published) + i].sig.Args]]
    /\ pc' = "done"
    /\ returned' = "void"
    /\ UNCHANGED <<d, unmarshalErr, task, reflectedArgs, results>>
    /\ UNCHANGED <<registry, parked>>

\* the error branch without its return: finalize is called again with the result
FinishFallsThrough ==
    /\ pc = "returned"
    /\ IF results[2] # Nil
       THEN LET sends ==
                    FinalizeSends(s, Nil, ErrorsNew(ReflectString(results[2], "error")))
                        \o FinalizeSends(s, results[1], Nil)
            IN \E answers \in [1..Len(sends) -> SendResults] :
                /\ published' = published \o
                        [i \in 1..Len(sends) |-> [sig |-> sends[i], res |-> answers[i]]]
                /\ s' = s
                /\ outcome' = [result |-> results[1], err |-> Nil]
                /\ finalizeCalls' = finalizeCalls + 2
       ELSE Finalize(results[1], reflectedArgs.err)
    /\ pc' = "done"
    /\ returned' = "void"
    /\ UNCHANGED <<d, unmarshalErr, task, reflectedArgs, results, invocations>>
    /\ UNCHANGED <<registry, parked>>

\* if !results[1].IsNil() { finalize(nil, errors.New(results[1].String())) }
\* else finalize(results[0], err)
Finish ==
    /\ pc = "returned"
    /\ IF results[2] # Nil
       THEN Finalize(Nil, ErrorsNew(ReflectString(results[2], "error")))
       ELSE Finalize(results[1], reflectedArgs.err)
    /\ pc' = "done"
    /\ returned' = "void"
    /\ UNCHANGED <<d, unmarshalErr, task, reflectedArgs, results, invocations>>
    /\ UNCHANGED <<registry, parked>>

\* processMessage has returned: its locals are gone and the worker waits for the
\* next delivery
Await ==
    /\ pc = "done"
    /\ pc' = "idle"
    /\ d' = NoDelivery
    /\ s' = ZeroSig
    /\ unmarshalErr' = Nil
    /\ task' = NoTask
    /\ reflectedArgs' = [vals |-> <<>>, err |-> Nil]
    /\ results' = <<Nil, Nil>>
    /\ outcome' = [result |-> Nil, err |-> Nil]
    /\ invocations' = <<>>
    /\ published' = <<>>
    /\ finalizeCalls' = 0
    /\ returned' = "pending"
    /\ UNCHANGED <<registry, parked>>

Next == Receive \/ Lookup \/ Reflect \/ Call \/ Finish \/ Await

Spec == Init /\ [][Next]_vars

-----------------------------------------------------------------------------
(* finalize applied directly, more than once, to one signature and outcome *)

\* the signatures finalize is applied to: finalize reads only Name, Immutable,
\* OnSuccess and OnError
DirectSignatures == {x \in Signatures : x.Name = "add" /\ x.Args = <<>>}

\* the (result, err) pairs finalize is applied to
DirectOutcomes ==
    {[result |-> r, err |-> Nil] : r \in ResultValues("int")}
        \cup {[result |-> Nil, err |-> ErrorsNew(m)] : m \in ErrMsgs}

InitFinalize ==
    /\ pc = "direct"
    /\ d \in [sig : DirectSignatures, defect : {"none"}]
    /\ s = d.sig
    /\ unmarshalErr = Nil
    /\ task = NoTask
    /\ reflectedArgs = [vals |-> <<>>, err |-> Nil]
    /\ results = <<Nil, Nil>>
    /\ outcome \in DirectOutcomes
    /\ invocations = <<>>
    /\ published = <<>>
    /\ finalizeCalls = 0
    /\ returned = "pending"
    /\ registry = Registry
    /\ parked = NoExec

\* w.finalize(&s, result, err), again with the same s, result and err
FinalizeDirect ==
    /\ pc = "direct"
    /\ finalizeCalls < MaxDirectCalls
    /\ Finalize(outcome.result, outcome.err)
    /\ UNCHANGED <<pc, d, unmarshalErr, task, reflectedArgs, results,
                   invocations, returned>>
    /\ UNCHANGED <<registry, parked>>

NextFinalize == FinalizeDirect

SpecFinalize == InitFinalize /\ [][NextFinalize]_vars

-----------------------------------------------------------------------------
(* Two processMessage calls of one worker process running concurrently *)

\* the signatures delivered to the concurrent calls
SmallSignatures ==
    [Name : {"add", "ghost"},
     Args : {<<IntTwo, IntTwo>>, <<IntTwo>>, <<Unsupported>>},
     Immutable : BOOLEAN,
     OnSuccess : {<<>>, <<TAlert, TLog>>},
     OnError : {<<TLog>>}]

SmallDeliveries ==
    [sig : SmallSignatures, defect : {"none"}]
        \cup [sig : {ZeroSig}, defect : {"syntax"}]

\* the locals of the processMessage call that is running
Current ==
    [pc |-> pc, d |-> d, s |-> s, unmarshalErr |-> unmarshalErr, task |-> task,
     reflectedArgs |-> reflectedArgs, results |-> results, outcome |-> outcome,
     invocations |-> invocations, published |-> published,
     finalizeCalls |-> finalizeCalls, returned |-> returned]

\* the locals of a call that has not received a delivery
IdleExec ==
    [pc |-> "idle", d |-> NoDelivery, s |-> ZeroSig, unmarshalErr |-> Nil,
     task |-> NoTask, reflectedArgs |-> [vals |-> <<>>, err |-> Nil],
     results |-> <<Nil, Nil>>, outcome |-> [result |-> Nil, err |-> Nil],
     invocations |-> <<>>, published |-> <<>>, finalizeCalls |-> 0,
     returned |-> "pending"]

InitConc ==
    /\ pc = "idle"
    /\ d = NoDelivery
    /\ s = ZeroSig
    /\ unmarshalErr = Nil
    /\ task = NoTask
    /\ reflectedArgs = [vals |-> <<>>, err |-> Nil]
    /\ results = <<Nil, Nil>>
    /\ outcome = [result |-> Nil, err |-> Nil]
    /\ invocations = <<>>
    /\ published = <<>>
    /\ finalizeCalls = 0
    /\ returned = "pending"
    /\ registry = Registry
    /\ parked = IdleExec

\* the connection layer calls processMessage with a delivery; s is decoded
ReceiveConc ==
    /\ pc = "idle"
    /\ \E body \in SmallDeliveries :
        /\ d' = body
        /\ s' = Unmarshal(body).s
        /\ unmarshalErr' = Unmarshal(body).err
    /\ pc' = "lookup"
    /\ task' = NoTask
    /\ reflectedArgs' = [vals |-> <<>>, err |-> Nil]
    /\ results' = <<Nil, Nil>>
    /\ outcome' = [result |-> Nil, err |-> Nil]
    /\ invocations' = <<>>
    /\ published' = <<>>
    /\ finalizeCalls' = 0
    /\ returned' = "pending"
    /\ UNCHANGED <<registry, parked>>

\* the scheduler runs the other call: each call keeps its own locals, the
\* registry is the one thing both read. A panic that nothing recovers ends the
\* process, so no call runs after it.
Switch ==
    /\ parked # NoExec
    /\ pc # "panicked"
    /\ parked' = Current
    /\ pc' = parked.pc
    /\ d' = parked.d
    /\ s' = parked.s
    /\ unmarshalErr' = parked.unmarshalErr
    /\ task' = parked.task
    /\ reflectedArgs' = parked.reflectedArgs
    /\ results' = parked.results
    /\ outcome' = parked.outcome
    /\ invocations' = parked.invocations
    /\ published' = parked.published
    /\ finalizeCalls' = parked.finalizeCalls
    /\ returned' = parked.returned
    /\ UNCHANGED registry

NextConc == ReceiveConc \/ Lookup \/ Reflect \/ Call \/ Finish \/ Await \/ Switch

SpecConc == InitConc /\ [][NextConc]_vars

-----------------------------------------------------------------------------
(* One delivery processed twice in succession *)

\* processMessage has returned and the same bytes are delivered again: the
\* locals of the first call are kept aside for comparison, the second call
\* starts with a new TaskSignature{} and decodes the bytes into it
Redeliver ==
    /\ pc = "done"
    /\ parked = NoExec
    /\ parked' = Current
    /\ d' = d
    /\ s' = Unmarshal(d).s
    /\ unmarshalErr' = Unmarshal(d).err
    /\ pc' = "lookup"
    /\ task' = NoTask
    /\ reflectedArgs' = [vals |-> <<>>, err |-> Nil]
    /\ results' = <<Nil, Nil>>
    /\ outcome' = [result |-> Nil, err |-> Nil]
    /\ invocations' = <<>>
    /\ published' = <<>>
    /\ finalizeCalls' = 0
    /\ returned' = "pending"
    /\ UNCHANGED registry

NextTwice == ReceiveConc \/ Lookup \/ Reflect \/ Call \/ Finish \/ Redeliver

SpecTwice == Init /\ [][NextTwice]_vars

-----------------------------------------------------------------------------
(* Properties *)

\* the signature as processMessage decoded it
decoded == Unmarshal(d).s

\* the handler was called and reported no error, and processMessage is over
HandlerSucceeded == pc = "done" /\ Len(invocations) = 1 /\ results[2] = Nil

\* finalize was called with an error, and processMessage is over
FailureOutcome == pc = "done" /\ finalizeCalls = 1 /\ outcome.err # Nil

\* C1: when the handler of a signature with Immutable = false returns a result
\* and no error, the i-th signature sent is for the i-th task of OnSuccess and
\* its Args are the result (its type and value) followed by the Args the task
\* declared, in their order.
C1_ResultPrepended ==
    (HandlerSucceeded /\ decoded.Immutable = FALSE) =>
        /\ Len(published) = Len(decoded.OnSuccess)
        /\ \A i \in 1..Len(published) :
              published[i].sig.Args =
                  <<[Type |-> results[1].kind, Value |-> results[1]]>>
                      \o decoded.OnSuccess[i].Args

C1_Witness ==
    /\ HandlerSucceeded
    /\ decoded.Immutable = FALSE
    /\ decoded.OnSuccess = <<TAlert, TLog>>
    /\ Len(published) = 2
    /\ published[1].sig.Args = <<TaskArg("int", Int("5")), StrPager, IntTwo>>

\* C2: when the handler of a signature with Immutable = true succeeds, the i-th
\* signature sent is for the i-th task of OnSuccess and its Args are exactly the
\* Args the task declared, whatever the result.
C2_ImmutableNoPrepend ==
    (HandlerSucceeded /\ decoded.Immutable = TRUE) =>
        /\ Len(published) = Len(decoded.OnSuccess)
        /\ \A i \in 1..Len(published) :
              published[i].sig.Args = decoded.OnSuccess[i].Args

C2_Witness ==
    /\ HandlerSucceeded
    /\ decoded.Immutable = TRUE
    /\ decoded.OnSuccess = <<TAlert, TLog>>
    /\ results[1] = Int("7")
    /\ published[1].sig.Args = <<StrPager, IntTwo>>
    /\ published[2].sig.Args = <<>>

\* C3: when the outcome is a failure, the i-th signature sent is for the i-th
\* task of OnError and its Args are the error argument (the error finalize was
\* given, under the type of that error) followed by the Args the task declared,
\* in their order, whether Immutable is true or false.
C3_ErrorPrepended ==
    FailureOutcome =>
        /\ Len(published) = Len(decoded.OnError)
        /\ \A i \in 1..Len(published) :
              published[i].sig.Args =
                  <<[Type |-> "*errors.errorString", Value |-> outcome.err]>>
                      \o decoded.OnError[i].Args

C3_Witness ==
    /\ FailureOutcome
    /\ decoded.Immutable = TRUE
    /\ Len(invocations) = 1
    /\ decoded.OnError = <<TAlert>>
    /\ Len(published[1].sig.Args) = 3
    /\ published[1].sig.Args[1].Value = ErrorsNew("<error Value>")

\* C4: for a message whose signature name is not registered, no handler is
\* called and nothing is sent, whatever its Args, OnSuccess and OnError.
C4_UnregisteredDropped ==
    decoded.Name \notin DOMAIN Registry =>
        /\ invocations = <<>>
        /\ published = <<>>
        /\ finalizeCalls = 0

C4_Witness ==
    /\ pc = "done"
    /\ decoded.Name = "ghost"
    /\ decoded.Args = <<IntTwo>>
    /\ decoded.OnError = <<TLog>>
    /\ decoded.OnSuccess = <<TAlert>>
    /\ published = <<>>

\* the message has a registered handler and ReflectArgs returned an error
ReflectFailed == task # NoTask /\ reflectedArgs.err # Nil

-----------------------------------------------------------------------------
(* Properties of the sends and of the calls *)

\* the list finalize was to work on: OnError after an error, OnSuccess otherwise
Selected(sig) == IF outcome.err # Nil THEN sig.OnError ELSE sig.OnSuccess

\* the sent signature p is the task c but for arguments put before c's own
DerivedFrom(p, c) ==
    /\ [p EXCEPT !.Args = c.Args] = c
    /\ Len(p.Args) \in {Len(c.Args), Len(c.Args) + 1}
    /\ SubSeq(p.Args, Len(p.Args) - Len(c.Args) + 1, Len(p.Args)) = c.Args

C7_OneSendPerContinuationInOrder ==
    (pc = "done" /\ finalizeCalls = 1) =>
        /\ Len(published) = Len(Selected(decoded))
        /\ \A i \in 1..Len(published) :
              DerivedFrom(published[i].sig, Selected(decoded)[i])

C7_Witness ==
    /\ pc = "done"
    /\ finalizeCalls = 1
    /\ outcome.err = Nil
    /\ decoded.OnSuccess = <<TLog, TAlert>>
    /\ decoded.OnError = <<TAlert>>
    /\ Len(published) = 2
    /\ published[1].sig.Name = "log"
    /\ published[2].sig.Name = "alert"

\* the decoded arguments do not match the parameters of the registered handler
Mismatch ==
    /\ pc \in {"call", "panicked", "returned", "done"}
    /\ task # NoTask
    /\ reflectedArgs.err = Nil
    /\ CallPanics(task, reflectedArgs.vals)

\* C8 as stated: when the decoded arguments do not match the handler's
\* parameters in number or type, processMessage does not attempt the call and
\* does not crash: it ends normally, with a failure outcome whose error tasks
\* were sent.
C8_MismatchIsFailureOutcome ==
    Mismatch =>
        /\ pc # "panicked"
        /\ invocations = <<>>
        /\ pc = "done" => (outcome.err # Nil /\ Len(published) = Len(decoded.OnError))

\* C9 as stated: when SendTask rejects a continuation, the rejection reaches
\* the caller of processMessage.
C9_PublishErrorSurfaced ==
    (pc = "done" /\ \E i \in 1..Len(published) : published[i].res = "PublishError")
        => returned = "PublishError"

\* C10: for one message at most one handler call is made, and it is a call of
\* the handler registered under the name of the message's own signature: no
\* second call after an error, and no call of a continuation's handler.
C10_AtMostOneOwnHandlerCall ==
    /\ Len(invocations) <= 1
    /\ \A i \in 1..Len(invocations) :
          /\ invocations[i].handler = decoded.Name
          /\ invocations[i].handler \in DOMAIN Registry
          /\ Len(invocations[i].args) = Len(decoded.Args)
          /\ \A j \in 1..Len(decoded.Args) :
                invocations[i].args[j] =
                    [kind |-> decoded.Args[j].Type, v |-> decoded.Args[j].Value.v]

C10_Witness ==
    /\ pc = "done"
    /\ Len(invocations) = 1
    /\ results[2] # Nil
    /\ decoded.Name = "add"
    /\ decoded.OnError = <<TLog, TLog>>
    /\ Len(published) = 2
    /\ published[1].sig.Name \in DOMAIN Registry

-----------------------------------------------------------------------------
(* Properties of the decode and of the error argument *)

\* C11 as stated: when json.Unmarshal fails, the message is dropped: no handler
\* is called and nothing is sent, even when fields such as Name were stored
\* before the error.
C11_UnmarshalErrorDrops ==
    unmarshalErr # Nil =>
        /\ invocations = <<>>
        /\ published = <<>>
        /\ finalizeCalls = 0

\* the handler was called and reported an error, and processMessage is over
HandlerFailed == pc = "done" /\ Len(invocations) = 1 /\ results[2] # Nil

\* C12 as stated: when the handler returns an error with message m, every
\* signature sent for a task of OnError has as first argument the message m
\* under one fixed error type.
C12_ErrorMessageCarried ==
    HandlerFailed =>
        \A i \in 1..Len(published) :
            /\ published[i].sig.Args[1].Type = "*errors.errorString"
            /\ published[i].sig.Args[1].Value.v = results[2].v

-----------------------------------------------------------------------------
(* Properties of the two branches of finalize *)

\* the handler reported an error or the arguments could not be reflected
Failed == results[2] # Nil \/ reflectedArgs.err # Nil

\* C14: the outcome selects one branch. After a handler error or a reflection
\* error exactly the tasks of OnError are sent, each with an error first, none
\* of OnSuccess, and no sent argument is the handler's result; after a result
\* without error exactly the tasks of OnSuccess are sent, none of OnError, and
\* no sent argument is an error.
C14_BranchesExclusive ==
    (pc = "done" /\ finalizeCalls >= 1) =>
        /\ (outcome.err # Nil) <=> Failed
        /\ Failed =>
            /\ Len(published) = Len(decoded.OnError)
            /\ \A i \in 1..Len(published) :
                /\ DerivedFrom(published[i].sig, decoded.OnError[i])
                /\ published[i].sig.Args[1].Value.kind = "*errors.errorString"
                /\ \A j \in 1..Len(published[i].sig.Args) :
                      published[i].sig.Args[j].Value # results[1]
        /\ ~Failed =>
            /\ Len(published) = Len(decoded.OnSuccess)
            /\ \A i \in 1..Len(published) :
                /\ DerivedFrom(published[i].sig, decoded.OnSuccess[i])
                /\ \A j \in 1..Len(published[i].sig.Args) :
                      published[i].sig.Args[j].Value.kind # "*errors.errorString"

C14_Witness ==
    /\ pc = "done"
    /\ Len(invocations) = 1
    /\ results[2] # Nil
    /\ decoded.OnSuccess = <<TAlert, TLog>>
    /\ decoded.OnError = <<TLog>>
    /\ decoded.Immutable = FALSE
    /\ Len(published) = 1
    /\ published[1].sig.Name = "log"

\* C15: every signature sent is its task of the selected list but for Args:
\* its Name, OnSuccess, OnError and Immutable are the task's.
C15_OnlyArgsChange ==
    (pc = "done" /\ finalizeCalls = 1) =>
        /\ Len(published) = Len(Selected(decoded))
        /\ \A i \in 1..Len(published) :
              /\ published[i].sig.Name = Selected(decoded)[i].Name
              /\ published[i].sig.OnSuccess = Selected(decoded)[i].OnSuccess
              /\ published[i].sig.OnError = Selected(decoded)[i].OnError
              /\ published[i].sig.Immutable = Selected(decoded)[i].Immutable

C15_Witness ==
    /\ pc = "done"
    /\ finalizeCalls = 1
    /\ outcome.err = Nil
    /\ decoded.Immutable = FALSE
    /\ decoded.OnSuccess = <<TAlert>>
    /\ Len(published) = 1
    /\ Len(published[1].sig.Args) = 3
    /\ published[1].sig.Immutable = TRUE
    /\ published[1].sig.OnSuccess = <<TLog>>
    /\ published[1].sig.OnError = <<TLog>>

\* C16: finalize is called exactly once for a message whose handler is
\* registered and whose processing ends (after a reflection error, a handler
\* error or a handler result), never twice, and never for a message whose
\* handler is not registered.
C16_FinalizeExactlyOnce ==
    /\ finalizeCalls <= 1
    /\ decoded.Name \notin DOMAIN Registry => finalizeCalls = 0
    /\ (pc = "done" /\ decoded.Name \in DOMAIN Registry) => finalizeCalls = 1
    /\ (pc = "done" /\ finalizeCalls = 1) =>
          \/ reflectedArgs.err # Nil /\ invocations = <<>> /\ outcome.err = reflectedArgs.err
          \/ Len(invocations) = 1 /\ results[2] # Nil /\ outcome.err # Nil
          \/ Len(invocations) = 1 /\ results[2] = Nil /\ outcome.err = Nil

C16_Witness ==
    /\ pc = "done"
    /\ decoded.Name = "log"
    /\ Len(invocations) = 1
    /\ results[2] # Nil
    /\ decoded.OnError = <<TAlert, TLog>>
    /\ finalizeCalls = 1
    /\ Len(published) = 2

-----------------------------------------------------------------------------
(* Properties of concurrent calls *)

\* the handler calls and the signatures sent that processMessage can produce
\* for a delivery processed alone
AloneRuns(body) ==
    LET sig == Unmarshal(body).s
        t == IF sig.Name \in DOMAIN Registry THEN sig.Name ELSE NoTask
        ra == ReflectArgs(sig.Args)
    IN  IF t = NoTask THEN {[inv |-> <<>>, pub |-> <<>>]}
        ELSE IF ra.err # Nil
        THEN {[inv |-> <<>>, pub |-> FinalizeSends(sig, Nil, ra.err)]}
        ELSE IF CallPanics(t, ra.vals) THEN {[inv |-> <<>>, pub |-> <<>>]}
        ELSE {[inv |-> <<[handler |-> t, args |-> ra.vals]>>,
               pub |-> IF rets[2] # Nil
                       THEN FinalizeSends(sig, Nil,
                                ErrorsNew(ReflectString(rets[2], "error")))
                       ELSE FinalizeSends(sig, rets[1], Nil)]
                 : rets \in HandlerReturns(t)}

\* the handler calls and the signatures sent of a call with the locals l
Observed(l) ==
    [inv |-> l.invocations,
     pub |-> [i \in 1..Len(l.published) |-> l.published[i].sig]]

\* the call with the locals l will make no further step
Over(l) == l.pc = "done" \/ (l.pc # "idle" /\ pc = "panicked")

\* C13 as stated: under every interleaving of two processMessage calls, what
\* each call has done for its message when it is over (the handler calls made
\* and the signatures sent, in order) is what processMessage does for that
\* message alone, and the registry is never written.
C13_ConcurrentCallsIndependent ==
    /\ registry = Registry
    /\ Over(Current) => Observed(Current) \in AloneRuns(d)
    /\ Over(parked) => Observed(parked) \in AloneRuns(parked.d)

\* as long as no call panics, the calls do not disturb each other
C13_IndependentUnlessPanic ==
    /\ registry = Registry
    /\ pc = "done" => Observed(Current) \in AloneRuns(d)
    /\ parked.pc = "done" => Observed(parked) \in AloneRuns(parked.d)

-----------------------------------------------------------------------------
(* Properties of a delivery processed twice *)

\* finalize has left Name, Args and Immutable of the signature as decoded
OriginKept ==
    finalizeCalls >= 1 =>
        /\ s.Name = decoded.Name
        /\ s.Args = decoded.Args
        /\ s.Immutable = decoded.Immutable

\* the second processing of the same bytes is over
SecondOver == parked # NoExec /\ pc = "done"

\* C17 as stated: finalize leaves Name, Args and Immutable of the signature
\* unchanged, and the second processing of the same bytes makes the same
\* handler call and sends the same signatures as the first.
C17_SameBytesSameSends ==
    /\ OriginKept
    /\ SecondOver =>
        /\ invocations = parked.invocations
        /\ Observed(Current).pub = Observed(parked).pub

\* C17 as amended: finalize leaves Name, Args and Immutable of the signature
\* unchanged, and the second processing of the same bytes makes the same
\* handler call (same handler, same arguments) as the first and, when the
\* handler returns the same result and error both times, sends the same
\* signatures.
C17_SameBytesSameSendsGivenSameReturn ==
    /\ OriginKept
    /\ SecondOver =>
        /\ d = parked.d
        /\ s = parked.s
        /\ invocations = parked.invocations
        /\ results = parked.results => Observed(Current).pub = Observed(parked).pub

C17_Witness ==
    /\ SecondOver
    /\ Len(invocations) = 1
    /\ results = parked.results
    /\ results[2] = Nil
    /\ decoded.Immutable = FALSE
    /\ Len(published) = 2
    /\ Len(parked.published) = 2
    /\ published[1].sig.Args = <<TaskArg("int", Int("5")), StrPager, IntTwo>>

=============================================================================
